---- MODULE Spec2Model ----
(***************************************************************************)
(* Student identifier resolution (src/pages/StudentProfile.tsx, fetchData  *)
(* and getFullDisplayId) and the student directory service it reads        *)
(* (src/services/store.ts).                                                *)
(*                                                                         *)
(* A JavaScript string is modelled as a sequence of one-character strings, *)
(* so that slicing, prefix tests, case folding and the regular expressions *)
(* of the source are computed character by character.                      *)
(***************************************************************************)
EXTENDS Integers, Sequences, FiniteSets, TLC

(***************************************************************************)
(* Characters                                                              *)
(***************************************************************************)
UpperChars ==
  <<"A","B","C","D","E","F","G","H","I","J","K","L","M",
    "N","O","P","Q","R","S","T","U","V","W","X","Y","Z">>

LowerChars ==
  <<"a","b","c","d","e","f","g","h","i","j","k","l","m",
    "n","o","p","q","r","s","t","u","v","w","x","y","z">>

DigitChars == <<"0","1","2","3","4","5","6","7","8","9">>

Range(f) == { f[i] : i \in DOMAIN f }

UpperSet == Range(UpperChars)

LowerSet == Range(LowerChars)

DigitSet == Range(DigitChars)

HexLetterSet == {"a","b","c","d","e","f","A","B","C","D","E","F"}

IsUpper(c) == c \in UpperSet

IsLower(c) == c \in LowerSet

IsDigit(c) == c \in DigitSet

\* [a-zA-Z0-9]
IsAlnum(c) == IsUpper(c) \/ IsLower(c) \/ IsDigit(c)

\* [0-9a-f] under the i flag
IsHex(c) == IsDigit(c) \/ c \in HexLetterSet

\* the white space String.prototype.trim removes (the model's alphabet has the space only)
IsSpace(c) == c = " "

DigitValOf == [c \in DigitSet |-> (CHOOSE i \in DOMAIN DigitChars : DigitChars[i] = c) - 1]

DigitVal(c) == DigitValOf[c]

HexVal(c) ==
  IF IsDigit(c) THEN DigitVal(c)
  ELSE CASE c \in {"a","A"} -> 10 [] c \in {"b","B"} -> 11 [] c \in {"c","C"} -> 12
         [] c \in {"d","D"} -> 13 [] c \in {"e","E"} -> 14 [] OTHER -> 15

LowerOf == [c \in UpperSet |-> LowerChars[CHOOSE i \in DOMAIN UpperChars : UpperChars[i] = c]]

UpperOf == [c \in LowerSet |-> UpperChars[CHOOSE i \in DOMAIN LowerChars : LowerChars[i] = c]]

ToLowerChar(c) == IF IsUpper(c) THEN LowerOf[c] ELSE c

ToUpperChar(c) == IF IsLower(c) THEN UpperOf[c] ELSE c

(***************************************************************************)
(* Strings                                                                 *)
(***************************************************************************)
\* String.prototype.toLowerCase
ToLowerCase(s) == [i \in 1..Len(s) |-> ToLowerChar(s[i])]

ToUpperCase(s) == [i \in 1..Len(s) |-> ToUpperChar(s[i])]

\* String.prototype.startsWith
StartsWith(s, p) == Len(p) <= Len(s) /\ SubSeq(s, 1, Len(p)) = p

\* String.prototype.slice(n) for n >= 0
Slice(s, n) == IF n >= Len(s) THEN <<>> ELSE SubSeq(s, n + 1, Len(s))

RECURSIVE TrimStart(_)
TrimStart(s) == IF s # <<>> /\ IsSpace(Head(s)) THEN TrimStart(Tail(s)) ELSE s

RECURSIVE TrimEnd(_)
TrimEnd(s) ==
  IF s # <<>> /\ IsSpace(s[Len(s)]) THEN TrimEnd(SubSeq(s, 1, Len(s) - 1)) ELSE s

\* String.prototype.trim
Trim(s) == TrimEnd(TrimStart(s))

AllDigits(s) == \A i \in 1..Len(s) : IsDigit(s[i])

AllHex(s) == \A i \in 1..Len(s) : IsHex(s[i])

\* value of a string of decimal digits
RECURSIVE DecValue(_)
DecValue(s) ==
  IF s = <<>> THEN 0 ELSE 10 * DecValue(SubSeq(s, 1, Len(s) - 1)) + DigitVal(s[Len(s)])

RECURSIVE HexValue(_)
HexValue(s) ==
  IF s = <<>> THEN 0 ELSE 16 * HexValue(SubSeq(s, 1, Len(s) - 1)) + HexVal(s[Len(s)])

\* decimal digits of a positive integer (template literal `${n}`)
RECURSIVE DecString(_)
DecString(n) ==
  IF n < 10 THEN <<DigitChars[n + 1]>> ELSE DecString(n \div 10) \o <<DigitChars[(n % 10) + 1]>>

\* the longest prefix of s whose characters satisfy the digit test
RECURSIVE DigitPrefix(_)
DigitPrefix(s) ==
  IF s # <<>> /\ IsDigit(Head(s)) THEN <<Head(s)>> \o DigitPrefix(Tail(s)) ELSE <<>>

RECURSIVE HexPrefix(_)
HexPrefix(s) ==
  IF s # <<>> /\ IsHex(Head(s)) THEN <<Head(s)>> \o HexPrefix(Tail(s)) ELSE <<>>

\* index of the first character of s in set cs, 0 if none
FirstIn(s, cs) ==
  IF \E i \in 1..Len(s) : s[i] \in cs
  THEN CHOOSE i \in 1..Len(s) : s[i] \in cs /\ \A j \in 1..(i - 1) : s[j] \notin cs
  ELSE 0

(***************************************************************************)
(* Number(string) and parseInt(string) of ECMAScript, as used by the       *)
(* numeric branch of the resolver                                          *)
(***************************************************************************)
Infinity == <<"I","n","f","i","n","i","t","y">>

\* ExponentPart after the indicator: SignedInteger
IsSignedInteger(s) ==
  LET u == IF s # <<>> /\ Head(s) \in {"+","-"} THEN Tail(s) ELSE s
  IN  u # <<>> /\ AllDigits(u)

\* DecimalDigits . DecimalDigits(opt) | . DecimalDigits | DecimalDigits
IsMantissa(s) ==
  LET d == FirstIn(s, {"."})
  IN  IF d = 0 THEN s # <<>> /\ AllDigits(s)
      ELSE LET ip == SubSeq(s, 1, d - 1)
               fp == Slice(s, d)
           IN  AllDigits(ip) /\ AllDigits(fp) /\ (ip # <<>> \/ fp # <<>>)

\* StrUnsignedDecimalLiteral
IsUnsignedDecimal(s) ==
  \/ s = Infinity
  \/ LET e == FirstIn(s, {"e","E"})
     IN  IF e = 0 THEN IsMantissa(s)
         ELSE IsMantissa(SubSeq(s, 1, e - 1)) /\ IsSignedInteger(Slice(s, e))

\* NonDecimalIntegerLiteral: 0x, 0o, 0b (no sign allowed)
IsNonDecimalInteger(s) ==
  /\ Len(s) >= 3
  /\ s[1] = "0"
  /\ LET body == Slice(s, 2)
     IN  \/ s[2] \in {"x","X"} /\ AllHex(body)
         \/ s[2] \in {"o","O"} /\ \A i \in 1..Len(body) : body[i] \in {"0","1","2","3","4","5","6","7"}
         \/ s[2] \in {"b","B"} /\ \A i \in 1..Len(body) : body[i] \in {"0","1"}

\* isNaN(Number(s)): Number trims, maps the empty string to 0, and otherwise
\* accepts exactly a StrNumericLiteral
NumberIsNaN(s) ==
  LET t == Trim(s)
      u == IF t # <<>> /\ Head(t) \in {"+","-"} THEN Tail(t) ELSE t
  IN  ~ (t = <<>> \/ IsNonDecimalInteger(t) \/ IsUnsignedDecimal(u))

\* parseInt(s) with no radix: the set holding the integer, or {} for NaN
ParseInt(s) ==
  LET t    == TrimStart(s)
      neg  == t # <<>> /\ Head(t) = "-"
      u    == IF t # <<>> /\ Head(t) \in {"+","-"} THEN Tail(t) ELSE t
      hex  == Len(u) >= 2 /\ u[1] = "0" /\ u[2] \in {"x","X"}
      digs == IF hex THEN HexPrefix(Slice(u, 2)) ELSE DigitPrefix(u)
      val  == IF hex THEN HexValue(digs) ELSE DecValue(digs)
  IN  IF digs = <<>> THEN {} ELSE {IF neg THEN 0 - val ELSE val}

(***************************************************************************)
(* UUIDs and names                                                         *)
(***************************************************************************)
\* mutant: only the length of the identifier is tested
isValidUUIDByLength(id) == Len(id) = 36

\* /^[0-9a-f]{8}-[0-9a-f]{4}-[0-9a-f]{4}-[0-9a-f]{4}-[0-9a-f]{12}$/i
isValidUUID(id) ==
  /\ Len(id) = 36
  /\ \A i \in 1..36 : IF i \in {9, 14, 19, 24} THEN id[i] = "-" ELSE IsHex(id[i])

\* the same expression, local to fetchData
uuidRegexTest(s) ==
  /\ Len(s) = 36
  /\ \A i \in 1..36 : IF i \in {9, 14, 19, 24} THEN s[i] = "-" ELSE IsHex(s[i])

\* name.replace(/[^a-zA-Z0-9]/g, '')
StripNonAlnum(name) == SelectSeq(name, IsAlnum)

\* cls.name.replace(/[^a-zA-Z0-9]/g, '').toLowerCase()
cleanName(name) == ToLowerCase(StripNonAlnum(name))

(***************************************************************************)
(* Bounds and the values the model draws its inputs from                   *)
(***************************************************************************)
\* largest number of classes in the class directory of the resolver runs
MaxClasses == 2

Rep(c, n) == [i \in 1..n |-> c]

\* a canonical lower-case UUID whose last character is c
MkUUID(c) ==
  Rep("a", 8) \o <<"-">> \o Rep("b", 4) \o <<"-">> \o <<"4">> \o Rep("c", 3) \o <<"-">>
    \o <<"8">> \o Rep("d", 3) \o <<"-">> \o Rep("e", 11) \o <<c>>

\* ids of students; the resolver runs store A and B and never C
UUID_A == MkUUID("1")

UUID_B == MkUUID("2")

UUID_C == MkUUID("3")

UUID_D == MkUUID("4")

\* 36 characters with the dashes of a UUID, whose last character is no
\* hexadecimal digit
UUID_Malformed == MkUUID("g")

StudentIds == <<UUID_A, UUID_B>>

\* class ids are opaque to every function modelled here
ClassIds == <<"c1", "c2", "c3">>

\* classId of an unassigned student (class_id NULL)
NoClassId == ""

\* "5th Grade"
Name5thGrade == <<"5","t","h"," ","G","r","a","d","e">>

\* "5thGrade": Name5thGrade without the characters cleaning removes
Clean5thGrade == <<"5","t","h","G","r","a","d","e">>

\* class names: the documented example "5th Grade"; "5thGrade1", as long as
\* the first, whose clean name the clean name of the first prefixes; and "--",
\* which has no ASCII letter or digit.  Two classes may bear the same name.
ClassNames ==
  { Name5thGrade,
    Clean5thGrade \o <<"1">>,
    <<"-","-">> }

\* unique_number values of the stored students, 0 standing for NULL /
\* undefined: student A holds no number, 2 or 12, and student B holds 2, so
\* that the tables have a student without a number, students of different
\* numbers and students of equal numbers
UniqueNumbers == << {0, 2, 12}, {2} >>

ClassRows(n) ==
  { [i \in 1..n |-> [id |-> ClassIds[i], name |-> nm[i]]] : nm \in [1..n -> ClassNames] }

ClassDirectories == UNION { ClassRows(n) : n \in 0..MaxClasses }

\* students A and B; name holds the rank of the name in collation order
StudentTables(classes) ==
  LET cids == { classes[i].id : i \in DOMAIN classes } \cup {NoClassId}
  IN  { { [id |-> StudentIds[k], classId |-> cf[k], name |-> k, uniqueId |-> uf[k]]
            : k \in DOMAIN StudentIds }
        : cf \in [DOMAIN StudentIds -> cids],
          uf \in { f \in [DOMAIN StudentIds -> UNION Range(UniqueNumbers)] :
                     \A k \in DOMAIN StudentIds : f[k] \in UniqueNumbers[k] } }

\* route tokens: an optional class-name prefix and a remainder, and the
\* legacy form with an underscore between them
TokenPrefixes ==
  { <<>>, Clean5thGrade, ToLowerCase(Clean5thGrade), Clean5thGrade \o <<"1">> }

TokenRemainders ==
  { <<"2">>, <<"1","2">>, <<"+","2">>, <<"x">>, UUID_A, ToUpperCase(UUID_A), UUID_C,
    UUID_Malformed }

LegacyRemainders == { <<"1","2">>, UUID_A }

Tokens ==
  { p \o r : p \in TokenPrefixes, r \in TokenRemainders }
    \cup { p \o <<"_">> \o r : p \in TokenPrefixes, r \in LegacyRemainders }

NullStudent == [id |-> <<>>, classId |-> NoClassId, name |-> 0, uniqueId |-> 0]

NullClass == [id |-> "", name |-> <<>>]

(***************************************************************************)
(* State                                                                   *)
(***************************************************************************)
VARIABLES
  classesTbl,    \* table "classes": rows in created_at order
  studentsTbl,   \* table "students": set of rows
  student,       \* React state of StudentProfile
  classGroup,    \* React state of StudentProfile
  isLoading,     \* React state of StudentProfile
  fib,           \* the running invocations of fetchData and their locals
  calls,         \* store functions invoked by fetchData, in order: <<fiber, function, argument>>
  ops,           \* the store operation each client has in flight, with its locals
  usedIds,       \* history: ids the database has generated for inserted students
  held,          \* history: <<classId, number, student id>> for every number a row has held
  autoSeq,       \* history: per class, the numbers the store computed and wrote, in order
  started,       \* number of store operations started so far
  sessionsTbl,       \* table "sessions": rows <<id, video_url>> of the session followed
  sessionVideosTbl,  \* table "session_videos": the url of each row of that session, as inserted
  lastVideoUrls      \* history: the videoUrls list of the last successful saveSession

vars ==
  <<classesTbl, studentsTbl, student, classGroup, isLoading, fib, calls,
    ops, usedIds, held, autoSeq, started, sessionsTbl, sessionVideosTbl, lastVideoUrls>>

\* what the session functions of the store keep
sessionSide == <<sessionsTbl, sessionVideosTbl, lastVideoUrls>>

\* no session has been saved
NoSessions == sessionsTbl = {} /\ sessionVideosTbl = <<>> /\ lastVideoUrls = <<>>

\* what the writing operations of the store keep besides the tables
storeSide == <<ops, usedIds, held, autoSeq, started>>

\* what the StudentProfile page keeps
pageSide == <<student, classGroup, isLoading, fib, calls>>

\* invocations of fetchData that may be in flight together
Fibers == {1, 2}

(***************************************************************************)
(* Directory services (src/services/store.ts), reads                       *)
(***************************************************************************)
\* mapClassFromDB over the rows in created_at order
getClasses == classesTbl

getClass(id) ==
  IF \E i \in DOMAIN classesTbl : classesTbl[i].id = id
  THEN classesTbl[CHOOSE i \in DOMAIN classesTbl : classesTbl[i].id = id]
  ELSE NullClass

\* comparator of getStudents applied to rows the query ordered by name:
\* numbered students first by number, then by name; a missing number counts
\* as Number.MAX_SAFE_INTEGER.  Rows equal in both keep the order of the
\* query, which is modelled as the order of their ids.
RECURSIVE IdLess(_, _)
IdLess(a, b) ==
  IF a = <<>> \/ b = <<>> THEN a = <<>> /\ b # <<>>
  ELSE IF Head(a) = Head(b) THEN IdLess(Tail(a), Tail(b))
  ELSE \/ IsDigit(Head(a)) /\ ~IsDigit(Head(b))
       \/ IsDigit(Head(a)) /\ IsDigit(Head(b)) /\ DigitVal(Head(a)) < DigitVal(Head(b))
       \/ ~IsDigit(Head(a)) /\ ~IsDigit(Head(b)) /\ HexVal(Head(a)) < HexVal(Head(b))

StudentBefore(a, b) ==
  LET missA == a.uniqueId = 0
      missB == b.uniqueId = 0
  IN  IF missA # missB THEN missB
      ELSE IF ~missA /\ a.uniqueId # b.uniqueId THEN a.uniqueId < b.uniqueId
      ELSE IF a.name # b.name THEN a.name < b.name
      ELSE IdLess(a.id, b.id)

RECURSIVE SortStudents(_)
SortStudents(S) ==
  IF S = {} THEN <<>>
  ELSE LET m == CHOOSE x \in S : \A y \in S \ {x} : StudentBefore(x, y)
       IN  <<m>> \o SortStudents(S \ {m})

\* mutant: the query without .eq('class_id', classId)
getStudentsOfAnyClass(classId) == SortStudents(studentsTbl)

getStudents(classId) == SortStudents({ r \in studentsTbl : r.classId = classId })

\* the values getStudent(id) asks the students table for: none when the
\* identifier fails isValidUUID, because it returns before the query is built
getStudentQueries(id) == IF ~isValidUUID(id) THEN {} ELSE {id}

\* .eq('id', id) on the uuid column: the text is read as a uuid, so letter
\* case is immaterial; stored ids are in canonical lower case
getStudent(id) ==
  IF ~isValidUUID(id) THEN NullStudent
  ELSE IF \E r \in studentsTbl : r.id = ToLowerCase(id)
       THEN CHOOSE r \in studentsTbl : r.id = ToLowerCase(id)
       ELSE NullStudent

\* Array.prototype.find over a list of students; s.uniqueId === uniqueNum is
\* false when s.uniqueId is undefined (0 here) or uniqueNum is NaN ({} here)
FindByUniqueId(list, uniqueNum) ==
  LET hit(i) == list[i].uniqueId # 0 /\ list[i].uniqueId \in uniqueNum
  IN  IF \E i \in DOMAIN list : hit(i)
      THEN list[CHOOSE i \in DOMAIN list : hit(i) /\ \A j \in 1..(i - 1) : ~hit(j)]
      ELSE NullStudent

\* allClasses.sort((a, b) => b.name.length - a.name.length): stable, longest name first
RECURSIVE SortByNameLength(_)
SortByNameLength(list) ==
  IF list = <<>> THEN <<>>
  ELSE LET i == CHOOSE k \in DOMAIN list :
                  /\ \A j \in DOMAIN list : Len(list[j].name) <= Len(list[k].name)
                  /\ \A j \in 1..(k - 1) : Len(list[j].name) < Len(list[k].name)
       IN  <<list[i]>> \o SortByNameLength(SubSeq(list, 1, i - 1) \o SubSeq(list, i + 1, Len(list)))

(***************************************************************************)
(* The resolver: fetchData of StudentProfile                               *)
(***************************************************************************)
\* mutant: the token compared in its original case
normalizeIdKeepCase(id) == id

\* id.toLowerCase()
normalizeId(id) == ToLowerCase(id)

\* mutant: the underscore is left in the remainder
DropSeparatorNever(remainder) == remainder

\* if (remainder.startsWith('_')) remainder = remainder.slice(1)
DropSeparator(remainder) ==
  IF StartsWith(remainder, <<"_">>) THEN Slice(remainder, 1) ELSE remainder

\* One iteration of `for (const cls of sortedClasses)` for the token id:
\* what it fetches, what it leaves in fetchedStudent and whether it breaks.
ClassStep(cls, id, normalizedId, prevStudent) ==
  LET cn             == cleanName(cls.name)
      remainder      == Slice(id, Len(cn))
      cleanRemainder == Trim(DropSeparator(remainder))
      prefix         == StartsWith(normalizedId, cn)
      numeric        == /\ prefix
                        /\ ~NumberIsNaN(cleanRemainder)
                        /\ Len(cleanRemainder) > 0
                        /\ Len(cleanRemainder) < 10
      byNumber       == IF numeric
                        THEN FindByUniqueId(getStudents(cls.id), ParseInt(cleanRemainder))
                        ELSE prevStudent
      uuid           == prefix /\ byNumber = NullStudent /\ uuidRegexTest(cleanRemainder)
      byUuid         == IF uuid THEN getStudent(cleanRemainder) ELSE byNumber
  IN  [ prefix         |-> prefix,
        cleanRemainder |-> cleanRemainder,
        numeric        |-> numeric,
        uuid           |-> uuid,
        fetchedStudent |-> IF prefix THEN byUuid ELSE prevStudent,
        break          |-> prefix /\ byUuid # NullStudent /\ (numeric \/ uuid),
        via            |-> IF numeric /\ byNumber # NullStudent THEN "number"
                           ELSE IF uuid /\ byUuid # NullStudent THEN "uuid" ELSE "none" ]

\* mutant: the students of every class whose clean name prefixes the token are fetched
StepCallsEager(f, cls, r) ==
  (IF r.prefix THEN << <<f, "getStudents", cls.id>> >> ELSE <<>>)
    \o (IF r.uuid THEN << <<f, "getStudent", r.cleanRemainder>> >> ELSE <<>>)

\* store calls one iteration makes, in order
StepCalls(f, cls, r) ==
  (IF r.numeric THEN << <<f, "getStudents", cls.id>> >> ELSE <<>>)
    \o (IF r.uuid THEN << <<f, "getStudent", r.cleanRemainder>> >> ELSE <<>>)

IdleFiber ==
  [ pc |-> "idle", id |-> <<>>, normalizedId |-> <<>>, sortedClasses |-> <<>>, idx |-> 0,
    fetchedStudent |-> NullStudent, fetchedClass |-> NullClass, via |-> "none" ]

\* the route parameter becomes t: the effect runs fetchData up to `await getClasses()`
Navigate(f, t) ==
  /\ fib[f].pc = "idle"
  /\ t # <<>>
  /\ isLoading' = TRUE
  /\ fib' = [fib EXCEPT ![f] = [IdleFiber EXCEPT !.pc = "getClasses", !.id = t]]
  /\ calls' = Append(calls, <<f, "getClasses", <<>>>>)
  /\ UNCHANGED <<classesTbl, studentsTbl, student, classGroup>>
  /\ UNCHANGED storeSide
  /\ UNCHANGED sessionSide

\* the loop is over without a break: `if (!fetchedStudent) await getStudent(id)`
EnterFallback(f, rec, log) ==
  /\ fib' = [fib EXCEPT ![f] = [rec EXCEPT !.pc = "fallback"]]
  /\ calls' = Append(log, <<f, "getStudent", rec.id>>)
  /\ UNCHANGED <<student, classGroup, isLoading>>

\* getClasses has answered: sort, normalise and enter the loop
GotClasses(f) ==
  /\ fib[f].pc = "getClasses"
  /\ LET sorted == SortByNameLength(getClasses)
         rec    == [fib[f] EXCEPT !.sortedClasses = sorted,
                                  !.normalizedId = normalizeId(fib[f].id),
                                  !.idx = 1]
     IN  IF sorted = <<>>
         THEN EnterFallback(f, rec, calls)
         ELSE /\ fib' = [fib EXCEPT ![f] = [rec EXCEPT !.pc = "loop"]]
              /\ UNCHANGED <<student, classGroup, isLoading, calls>>
  /\ UNCHANGED <<classesTbl, studentsTbl>>
  /\ UNCHANGED storeSide
  /\ UNCHANGED sessionSide

\* mutant: a class whose clean name prefixes the token ends the loop even
\* when it yields no student
LoopClassStopAtPrefix(f) ==
  /\ fib[f].pc = "loop"
  /\ LET me  == fib[f]
         cls == me.sortedClasses[me.idx]
         r   == ClassStep(cls, me.id, me.normalizedId, me.fetchedStudent)
         log == calls \o StepCalls(f, cls, r)
     IN  IF r.break
         THEN /\ fib' = [fib EXCEPT ![f] = [me EXCEPT !.pc = "done",
                                                       !.fetchedStudent = r.fetchedStudent,
                                                       !.fetchedClass = cls,
                                                       !.via = r.via]]
              /\ student' = r.fetchedStudent
              /\ classGroup' = cls
              /\ isLoading' = FALSE
              /\ calls' = log
         ELSE LET rec == [me EXCEPT !.fetchedStudent = r.fetchedStudent, !.idx = me.idx + 1]
              IN  IF me.idx = Len(me.sortedClasses) \/ r.prefix
                  THEN EnterFallback(f, rec, log)
                  ELSE /\ fib' = [fib EXCEPT ![f] = rec]
                       /\ calls' = log
                       /\ UNCHANGED <<student, classGroup, isLoading>>
  /\ UNCHANGED <<classesTbl, studentsTbl>>
  /\ UNCHANGED storeSide
  /\ UNCHANGED sessionSide

\* one iteration of the loop; on a break the rest of fetchData runs at once:
\* setStudent, setClassGroup, setIsLoading(false)
LoopClass(f) ==
  /\ fib[f].pc = "loop"
  /\ LET me  == fib[f]
         cls == me.sortedClasses[me.idx]
         r   == ClassStep(cls, me.id, me.normalizedId, me.fetchedStudent)
         log == calls \o StepCalls(f, cls, r)
     IN  IF r.break
         THEN /\ fib' = [fib EXCEPT ![f] = [me EXCEPT !.pc = "done",
                                                       !.fetchedStudent = r.fetchedStudent,
                                                       !.fetchedClass = cls,
                                                       !.via = r.via]]
              /\ student' = r.fetchedStudent
              /\ classGroup' = cls
              /\ isLoading' = FALSE
              /\ calls' = log
         ELSE LET rec == [me EXCEPT !.fetchedStudent = r.fetchedStudent, !.idx = me.idx + 1]
              IN  IF me.idx = Len(me.sortedClasses)
                  THEN EnterFallback(f, rec, log)
                  ELSE /\ fib' = [fib EXCEPT ![f] = rec]
                       /\ calls' = log
                       /\ UNCHANGED <<student, classGroup, isLoading>>
  /\ UNCHANGED <<classesTbl, studentsTbl>>
  /\ UNCHANGED storeSide
  /\ UNCHANGED sessionSide

\* mutant: a student found without a number is given one and saved
FallbackReturnSaving(f) ==
  /\ fib[f].pc = "fallback"
  /\ LET me    == fib[f]
         found == getStudent(me.id)
         rec   == [me EXCEPT !.fetchedStudent = found,
                             !.via = IF found # NullStudent THEN "fallback" ELSE "none"]
     IN  /\ student' = found
         /\ IF found # NullStudent /\ found.classId # NoClassId /\ me.fetchedClass = NullClass
            THEN /\ fib' = [fib EXCEPT ![f] = [rec EXCEPT !.pc = "getClass"]]
                 /\ calls' = calls \o << <<f, "saveStudent", found.id>>,
                                         <<f, "getClass", found.classId>> >>
                 /\ studentsTbl' = (studentsTbl \ {found})
                                      \cup {[found EXCEPT !.uniqueId = IF @ = 0 THEN 1 ELSE @]}
                 /\ UNCHANGED <<classGroup, isLoading>>
            ELSE /\ fib' = [fib EXCEPT ![f] = [rec EXCEPT !.pc = "done"]]
                 /\ classGroup' = me.fetchedClass
                 /\ isLoading' = FALSE
                 /\ UNCHANGED <<calls, studentsTbl>>
  /\ UNCHANGED classesTbl
  /\ UNCHANGED storeSide
  /\ UNCHANGED sessionSide

\* mutant: a full-token lookup that finds nothing ends fetchData on the spot,
\* as a rejected promise would
FallbackReturnAborting(f) ==
  /\ fib[f].pc = "fallback"
  /\ LET me    == fib[f]
         found == getStudent(me.id)
         rec   == [me EXCEPT !.fetchedStudent = found,
                             !.via = IF found # NullStudent THEN "fallback" ELSE "none"]
     IN  IF found = NullStudent
         THEN /\ fib' = [fib EXCEPT ![f] = [rec EXCEPT !.pc = "aborted"]]
              /\ UNCHANGED <<student, classGroup, isLoading, calls>>
         ELSE /\ student' = found
              /\ IF found.classId # NoClassId /\ me.fetchedClass = NullClass
                 THEN /\ fib' = [fib EXCEPT ![f] = [rec EXCEPT !.pc = "getClass"]]
                      /\ calls' = Append(calls, <<f, "getClass", found.classId>>)
                      /\ UNCHANGED <<classGroup, isLoading>>
                 ELSE /\ fib' = [fib EXCEPT ![f] = [rec EXCEPT !.pc = "done"]]
                      /\ classGroup' = me.fetchedClass
                      /\ isLoading' = FALSE
                      /\ UNCHANGED calls
  /\ UNCHANGED <<classesTbl, studentsTbl>>
  /\ UNCHANGED storeSide
  /\ UNCHANGED sessionSide

\* getStudent(id) has answered: setStudent, then fetch the class if the student names one
FallbackReturn(f) ==
  /\ fib[f].pc = "fallback"
  /\ LET me    == fib[f]
         found == getStudent(me.id)
         rec   == [me EXCEPT !.fetchedStudent = found,
                             !.via = IF found # NullStudent THEN "fallback" ELSE "none"]
     IN  /\ student' = found
         /\ IF found # NullStudent /\ found.classId # NoClassId /\ me.fetchedClass = NullClass
            THEN /\ fib' = [fib EXCEPT ![f] = [rec EXCEPT !.pc = "getClass"]]
                 /\ calls' = Append(calls, <<f, "getClass", found.classId>>)
                 /\ UNCHANGED <<classGroup, isLoading>>
            ELSE /\ fib' = [fib EXCEPT ![f] = [rec EXCEPT !.pc = "done"]]
                 /\ classGroup' = me.fetchedClass
                 /\ isLoading' = FALSE
                 /\ UNCHANGED calls
  /\ UNCHANGED <<classesTbl, studentsTbl>>
  /\ UNCHANGED storeSide
  /\ UNCHANGED sessionSide

\* getClass has answered: setClassGroup, setIsLoading(false)
GetClassReturn(f) ==
  /\ fib[f].pc = "getClass"
  /\ LET cls == getClass(fib[f].fetchedStudent.classId)
     IN  /\ fib' = [fib EXCEPT ![f] = [fib[f] EXCEPT !.pc = "done", !.fetchedClass = cls]]
         /\ classGroup' = cls
  /\ isLoading' = FALSE
  /\ UNCHANGED <<classesTbl, studentsTbl, student, calls>>
  /\ UNCHANGED storeSide
  /\ UNCHANGED sessionSide

(***************************************************************************)
(* Directory services (src/services/store.ts), writes                      *)
(***************************************************************************)
\* clients (pages, browser tabs) that call the store independently
Clients == {1, 2}

\* largest number of store operations started in one behaviour
MaxOps == 3

\* ids the database may generate for inserted students
StorePool == <<UUID_C, UUID_D>>

\* rows saved before the unique_number column existed: they hold no number
LegacyRows ==
  { [id |-> UUID_A, classId |-> ClassIds[1], name |-> 2, uniqueId |-> 0],
    [id |-> UUID_B, classId |-> ClassIds[1], name |-> 1, uniqueId |-> 0] }

\* the classes of the store runs
StoreClasses ==
  << [id |-> ClassIds[1], name |-> Name5thGrade],
     [id |-> ClassIds[2], name |-> Clean5thGrade \o <<"1">>] >>

StoreClassIds == { StoreClasses[i].id : i \in DOMAIN StoreClasses }

\* names (collation ranks) a new student may be given
StudentNames == {1, 2}

\* a student object without an id (a new student, or a temp- id)
NoId == <<>>

IdleOp ==
  [ pc |-> "idle",
    payload |-> [id |-> NoId, classId |-> NoClassId, name |-> 0, uniqueId |-> 0],
    auto |-> FALSE, classId |-> NoClassId, updates |-> <<>> ]

\* the student objects saveStudent is called with: a new student, which has
\* no id and no number yet, or a stored student as it was loaded (with its
\* number, if it holds one) and with the class it is kept in or moved to
SaveArgs ==
  { [id |-> NoId, classId |-> c, name |-> nm, uniqueId |-> 0]
      : c \in StoreClassIds, nm \in StudentNames }
    \cup { [r EXCEPT !.classId = c] : r \in studentsTbl, c \in StoreClassIds }

\* mutant: the number of rows of the class instead of their largest number
RowCount(rows) == Cardinality(rows)

\* reduce over the rows of a class: the largest unique_number, 0 if none
MaxNumber(rows) ==
  IF { r.uniqueId : r \in rows } = {} THEN 0
  ELSE CHOOSE m \in { r.uniqueId : r \in rows } : \A r \in rows : r.uniqueId <= m

\* the id the database generates for an inserted row
FreshId == StorePool[CHOOSE i \in DOMAIN StorePool :
                       StorePool[i] \notin usedIds /\ \A j \in 1..(i - 1) : StorePool[j] \in usedIds]

\* history kept for a row of id x that now holds number n in class c
Holding(c, n, x) == IF n = 0 THEN {} ELSE {<<c, n, x>>}

\* saveStudent up to its first await: the select when the number is missing,
\* the upsert otherwise
SaveStudentBegin(c, arg) ==
  /\ ops[c].pc = "idle"
  /\ started < MaxOps
  /\ started' = started + 1
  /\ ops' = [ops EXCEPT ![c] = [IdleOp EXCEPT !.pc = IF arg.uniqueId = 0 THEN "saveRead" ELSE "saveUpsert",
                                              !.payload = arg]]
  /\ UNCHANGED <<classesTbl, studentsTbl, usedIds, held, autoSeq>>
  /\ UNCHANGED pageSide
  /\ UNCHANGED sessionSide

\* the select has answered: payload.unique_number = maxId + 1
SaveStudentRead(c) ==
  /\ ops[c].pc = "saveRead"
  /\ LET existingStudents == { r \in studentsTbl : r.classId = ops[c].payload.classId }
         maxId == MaxNumber(existingStudents)
     IN  ops' = [ops EXCEPT ![c].pc = "saveUpsert",
                            ![c].payload.uniqueId = maxId + 1,
                            ![c].auto = TRUE]
  /\ UNCHANGED <<classesTbl, studentsTbl, usedIds, held, autoSeq, started>>
  /\ UNCHANGED pageSide
  /\ UNCHANGED sessionSide

\* the upsert: the row of the payload's id is replaced, or a row is inserted
\* (under the payload's id, or under a generated one when it has none)
SaveStudentUpsert(c) ==
  /\ ops[c].pc = "saveUpsert"
  /\ LET p   == ops[c].payload
         row == [p EXCEPT !.id = IF p.id = NoId THEN FreshId ELSE p.id]
     IN  /\ p.id = NoId => \E i \in DOMAIN StorePool : StorePool[i] \notin usedIds
         /\ studentsTbl' = { r \in studentsTbl : r.id # row.id } \cup {row}
         /\ usedIds' = usedIds \cup {row.id}
         /\ held' = held \cup Holding(row.classId, row.uniqueId, row.id)
         /\ autoSeq' = IF ops[c].auto
                       THEN [autoSeq EXCEPT ![row.classId] = Append(@, row.uniqueId)]
                       ELSE autoSeq
  /\ ops' = [ops EXCEPT ![c] = IdleOp]
  /\ UNCHANGED <<classesTbl, started>>
  /\ UNCHANGED pageSide
  /\ UNCHANGED sessionSide

\* ensureClassStudentNumbers up to its select
EnsureBegin(c, classId) ==
  /\ ops[c].pc = "idle"
  /\ started < MaxOps
  /\ started' = started + 1
  /\ ops' = [ops EXCEPT ![c] = [IdleOp EXCEPT !.pc = "ensureRead", !.classId = classId]]
  /\ UNCHANGED <<classesTbl, studentsTbl, usedIds, held, autoSeq>>
  /\ UNCHANGED pageSide
  /\ UNCHANGED sessionSide

\* the rows of S as a list in ascending name order; rows of equal name come
\* in an order the database chooses
NameOrdered(S) ==
  { l \in [1..Cardinality(S) -> S] :
      /\ \A i \in DOMAIN l : \A j \in DOMAIN l : i # j => l[i] # l[j]
      /\ \A i \in DOMAIN l : \A j \in DOMAIN l : i < j => l[i].name <= l[j].name }

\* the updates ensureClassStudentNumbers computes from the rows read
RECURSIVE NumberUpdates(_, _)
NumberUpdates(students, maxId) ==
  IF students = <<>> THEN <<>>
  ELSE IF Head(students).uniqueId = 0
       THEN <<[id |-> Head(students).id, uniqueId |-> maxId + 1]>>
              \o NumberUpdates(Tail(students), maxId + 1)
       ELSE NumberUpdates(Tail(students), maxId)

\* the select has answered: compute the updates; return true if there is none
EnsureRead(c) ==
  /\ ops[c].pc = "ensureRead"
  /\ \E students \in NameOrdered({ r \in studentsTbl : r.classId = ops[c].classId }) :
       LET updates == NumberUpdates(students, MaxNumber(Range(students)))
       IN  ops' = [ops EXCEPT ![c] = IF updates = <<>> THEN IdleOp
                                     ELSE [ops[c] EXCEPT !.pc = "ensureUpdate", !.updates = updates]]
  /\ UNCHANGED <<classesTbl, studentsTbl, usedIds, held, autoSeq, started>>
  /\ UNCHANGED pageSide
  /\ UNCHANGED sessionSide

\* one `update({ unique_number }).eq('id', update.id)` of the loop
EnsureUpdate(c) ==
  /\ ops[c].pc = "ensureUpdate"
  /\ LET u    == Head(ops[c].updates)
         hit  == { r \in studentsTbl : r.id = u.id }
         rest == Tail(ops[c].updates)
     IN  /\ studentsTbl' = (studentsTbl \ hit) \cup { [r EXCEPT !.uniqueId = u.uniqueId] : r \in hit }
         /\ held' = held \cup UNION { Holding(r.classId, u.uniqueId, r.id) : r \in hit }
         /\ autoSeq' = IF hit = {} THEN autoSeq
                       ELSE [autoSeq EXCEPT ![(CHOOSE r \in hit : TRUE).classId] = Append(@, u.uniqueId)]
         /\ ops' = [ops EXCEPT ![c] = IF rest = <<>> THEN IdleOp ELSE [ops[c] EXCEPT !.updates = rest]]
  /\ UNCHANGED <<classesTbl, usedIds, started>>
  /\ UNCHANGED pageSide
  /\ UNCHANGED sessionSide

\* deleteStudent
DeleteStudent(c, id) ==
  /\ ops[c].pc = "idle"
  /\ started < MaxOps
  /\ started' = started + 1
  /\ studentsTbl' = { r \in studentsTbl : r.id # id }
  /\ UNCHANGED <<classesTbl, ops, usedIds, held, autoSeq>>
  /\ UNCHANGED pageSide
  /\ UNCHANGED sessionSide

(***************************************************************************)
(* Sessions and their videos (src/services/store.ts)                       *)
(***************************************************************************)
\* longest videoUrls list a session is saved with
MaxVideos == 3

\* video URLs: opaque, distinct and non-empty
VideoUrls == {"u1", "u2", "u3", "u4"}

\* lists of distinct URLs of at most MaxVideos entries
VideoLists ==
  UNION { { l \in [1..n -> VideoUrls] : \A i \in 1..n : \A j \in 1..n : i # j => l[i] # l[j] }
            : n \in 0..MaxVideos }

\* id of the session followed; the database generates it at the insert
SessionId == "s1"

\* the videoUrl field of the object passed to saveSession: absent, or the
\* one of the session as it was loaded
VideoUrlFields == {""} \cup { r.video_url : r \in sessionsTbl }

\* saveSession for the session followed: without an id while it has no row
\* (insert), with its id afterwards (update)
SaveSession(videoUrls, videoUrl) ==
  LET primaryVideoUrl == IF Len(videoUrls) > 0 THEN videoUrls[1] ELSE videoUrl
  IN  /\ sessionsTbl' = { [id |-> SessionId, video_url |-> primaryVideoUrl] }
      /\ sessionVideosTbl' = IF Len(videoUrls) > 1 THEN Tail(videoUrls) ELSE sessionVideosTbl
      /\ lastVideoUrls' = videoUrls
      /\ UNCHANGED <<classesTbl, studentsTbl>>
      /\ UNCHANGED pageSide
      /\ UNCHANGED storeSide

\* the orders in which a select without ORDER BY may return the rows
RowOrders(rows) ==
  { [i \in DOMAIN rows |-> rows[f[i]]] :
      f \in { g \in [DOMAIN rows -> DOMAIN rows] :
                \A i \in DOMAIN rows : \A j \in DOMAIN rows : i # j => g[i] # g[j] } }

\* [...new Set(allUrls)]: the first occurrence of each URL, in order
RECURSIVE Deduplicate(_)
Deduplicate(l) ==
  IF l = <<>> THEN <<>>
  ELSE LET front == Deduplicate(SubSeq(l, 1, Len(l) - 1))
       IN  IF l[Len(l)] \in Range(front) THEN front ELSE Append(front, l[Len(l)])

\* the videoUrls lists getSessions may report for the session followed
getSessionsVideoUrls ==
  { Deduplicate(SelectSeq(<<r.video_url>> \o relatedVideos, LAMBDA url : url # ""))
      : r \in sessionsTbl, relatedVideos \in RowOrders(sessionVideosTbl) }

(***************************************************************************)
(* Specification of one resolution against a fixed directory               *)
(***************************************************************************)
Init ==
  /\ classesTbl \in ClassDirectories
  /\ studentsTbl \in StudentTables(classesTbl)
  /\ student = NullStudent
  /\ classGroup = NullClass
  /\ isLoading = TRUE
  /\ fib = [f \in Fibers |-> IdleFiber]
  /\ calls = <<>>
  /\ ops = [c \in Clients |-> IdleOp]
  /\ usedIds = { r.id : r \in studentsTbl }
  /\ held = UNION { Holding(r.classId, r.uniqueId, r.id) : r \in studentsTbl }
  /\ autoSeq = [c \in Range(ClassIds) |-> <<>>]
  /\ started = 0
  /\ NoSessions

Next ==
  \/ \E t \in Tokens : Navigate(1, t)
  \/ GotClasses(1)
  \/ LoopClass(1)
  \/ FallbackReturn(1)
  \/ GetClassReturn(1)

Spec == Init /\ [][Next]_vars

\* the continuation of fetchData after whichever call it awaits
Resume(f) == GotClasses(f) \/ LoopClass(f) \/ FallbackReturn(f) \/ GetClassReturn(f)

\* fetchData of fiber f awaits a call
Pending(f) == fib[f].pc \in {"getClasses", "loop", "fallback", "getClass"}

\* the same, every collaborator call of the resolution returning in the end:
\* weak fairness of Resume(1), with ENABLED <<Resume(1)>>_vars written as
\* Pending(1): each continuation is enabled at its pc and changes pc or idx.
\* Navigation is up to the user and carries no fairness.
SpecLive ==
  /\ Init /\ [][Next]_vars
  /\ ([]<>(~Pending(1)) \/ []<><<Resume(1)>>_vars)

(***************************************************************************)
(* Specification of two overlapping resolutions: the route parameter       *)
(* changes while the fetchData started for the previous one is suspended   *)
(***************************************************************************)
\* tokens of the overlapping runs: one resolved by the fallback and getClass,
\* one resolved by number, one that is not found
OverlapTokens == { UUID_A, Clean5thGrade \o <<"1","2">>, <<"x">> }

\* students of the overlapping runs: A holds 12 in the first class and B holds
\* 2 in the last one; with no class, both are unassigned
OverlapTable(classes) ==
  LET first == IF classes = <<>> THEN NoClassId ELSE classes[1].id
      last  == IF classes = <<>> THEN NoClassId ELSE classes[Len(classes)].id
  IN  { [id |-> UUID_A, classId |-> first, name |-> 1, uniqueId |-> 12],
        [id |-> UUID_B, classId |-> last, name |-> 2, uniqueId |-> 2] }

InitOverlap ==
  /\ Init
  /\ studentsTbl = OverlapTable(classesTbl)

\* the effect has no cleanup: the fetchData of fiber 1 keeps running after the
\* parameter has changed and fiber 2 has been started for the new token
NextOverlap ==
  \/ \E t \in OverlapTokens : Navigate(1, t)
  \/ \E t \in OverlapTokens : Pending(1) /\ t # fib[1].id /\ Navigate(2, t)
  \/ GotClasses(1)
  \/ LoopClass(1)
  \/ FallbackReturn(1)
  \/ GetClassReturn(1)
  \/ GotClasses(2)
  \/ LoopClass(2)
  \/ FallbackReturn(2)
  \/ GetClassReturn(2)

SpecOverlap == InitOverlap /\ [][NextOverlap]_vars

(***************************************************************************)
(* Specification of the writing operations of the store, run by clients    *)
(* that interleave at every await                                          *)
(***************************************************************************)
InitStore ==
  /\ classesTbl = StoreClasses
  /\ studentsTbl \in SUBSET LegacyRows
  /\ student = NullStudent
  /\ classGroup = NullClass
  /\ isLoading = TRUE
  /\ fib = [f \in Fibers |-> IdleFiber]
  /\ calls = <<>>
  /\ ops = [c \in Clients |-> IdleOp]
  /\ usedIds = { r.id : r \in studentsTbl }
  /\ held = {}
  /\ autoSeq = [c \in Range(ClassIds) |-> <<>>]
  /\ started = 0
  /\ NoSessions

NextStore ==
  \/ \E c \in Clients : \E arg \in SaveArgs : SaveStudentBegin(c, arg)
  \/ \E c \in Clients : SaveStudentRead(c)
  \/ \E c \in Clients : SaveStudentUpsert(c)
  \/ \E c \in Clients : \E classId \in StoreClassIds : EnsureBegin(c, classId)
  \/ \E c \in Clients : EnsureRead(c)
  \/ \E c \in Clients : EnsureUpdate(c)
  \/ \E c \in Clients : \E r \in studentsTbl : DeleteStudent(c, r.id)

SpecStore == InitStore /\ [][NextStore]_vars

\* the same operations called one after the other by a single client
NextStoreSeq ==
  \/ \E arg \in SaveArgs : SaveStudentBegin(1, arg)
  \/ SaveStudentRead(1)
  \/ SaveStudentUpsert(1)
  \/ \E classId \in StoreClassIds : EnsureBegin(1, classId)
  \/ EnsureRead(1)
  \/ EnsureUpdate(1)
  \/ \E r \in studentsTbl : DeleteStudent(1, r.id)

SpecStoreSeq == InitStore /\ [][NextStoreSeq]_vars

\* no ensureClassStudentNumbers call is in flight
NoEnsureRunning == \A d \in Clients : ops[d].pc \notin {"ensureRead", "ensureUpdate"}

\* the same operations, saves interleaving as before and every
\* ensureClassStudentNumbers call running alone: it starts when no other
\* operation is in flight and no operation starts or resumes before it returns
NextStoreAlone ==
  \/ \E c \in Clients : \E arg \in SaveArgs : NoEnsureRunning /\ SaveStudentBegin(c, arg)
  \/ \E c \in Clients : NoEnsureRunning /\ SaveStudentRead(c)
  \/ \E c \in Clients : NoEnsureRunning /\ SaveStudentUpsert(c)
  \/ \E c \in Clients : \E classId \in StoreClassIds :
        (\A d \in Clients : ops[d].pc = "idle") /\ EnsureBegin(c, classId)
  \/ \E c \in Clients : EnsureRead(c)
  \/ \E c \in Clients : EnsureUpdate(c)
  \/ \E c \in Clients : \E r \in studentsTbl : NoEnsureRunning /\ DeleteStudent(c, r.id)

SpecStoreAlone == InitStore /\ [][NextStoreAlone]_vars

\* saveSession called again and again for one session
InitSessions ==
  /\ InitStore
  /\ studentsTbl = {}

NextSessions ==
  \E videoUrls \in VideoLists : \E videoUrl \in VideoUrlFields : SaveSession(videoUrls, videoUrl)

SpecSessions == InitSessions /\ [][NextSessions]_vars

\* C8 -- sequence numbers are unique within a class: no two stored students of
\* the same class hold the same uniqueId.
C8_UniqueWithinClass ==
  \A r1 \in studentsTbl : \A r2 \in studentsTbl :
    (r1 # r2 /\ r1.classId = r2.classId /\ r1.uniqueId # 0) => r1.uniqueId # r2.uniqueId

StrictlyIncreasing(l) == \A i \in DOMAIN l : \A j \in DOMAIN l : i < j => l[i] < l[j]

\* C9 -- sequence numbers are never reused: a number a student of a class has
\* held is never held by a different student of that class, and the numbers
\* the store computes for a class are strictly increasing over time.
C9_NeverReused ==
  /\ \A h1 \in held : \A h2 \in held :
       (h1[1] = h2[1] /\ h1[2] = h2[2]) => h1[3] = h2[3]
  /\ \A c \in StoreClassIds : StrictlyIncreasing(autoSeq[c])

(***************************************************************************)
(* The resolver as a function of the token, and the share identifier       *)
(***************************************************************************)
\* the loop of fetchData over the sorted classes
RECURSIVE ScanClasses(_, _, _, _)
ScanClasses(list, id, normalizedId, prevStudent) ==
  IF list = <<>>
  THEN [student |-> prevStudent, class |-> NullClass, via |-> "none"]
  ELSE LET r == ClassStep(Head(list), id, normalizedId, prevStudent)
       IN  IF r.break
           THEN [student |-> r.fetchedStudent, class |-> Head(list), via |-> r.via]
           ELSE ScanClasses(Tail(list), id, normalizedId, r.fetchedStudent)

\* what fetchData leaves in student and classGroup for the token id
Resolve(id) ==
  LET scan == ScanClasses(SortByNameLength(getClasses), id, normalizeId(id), NullStudent)
  IN  IF scan.student # NullStudent THEN scan
      ELSE LET found == getStudent(id)
           IN  [ student |-> found,
                 class   |-> IF found # NullStudent /\ found.classId # NoClassId
                             THEN getClass(found.classId) ELSE NullClass,
                 via     |-> IF found # NullStudent THEN "fallback" ELSE "none" ]

Outcome(id) == LET r == Resolve(id) IN <<r.student, r.class>>

\* getFullDisplayId for a student s shown with class c
getFullDisplayId(s, c) ==
  IF s = NullStudent \/ c = NullClass THEN <<>>
  ELSE StripNonAlnum(c.name) \o (IF s.uniqueId # 0 THEN DecString(s.uniqueId) ELSE s.id)

\* the resolution of fiber 1 has completed
Done == fib[1].pc = "done"

\* a completed run of fetchData leaves what Resolve computes
RunMatchesResolve == Done => <<student, classGroup>> = Outcome(fib[1].id)

(***************************************************************************)
(* Properties of the resolver                                              *)
(***************************************************************************)
ClassRowsSet == { classesTbl[i] : i \in DOMAIN classesTbl }

\* position of class c in the order the resolver tries the classes
TryPosition(c) ==
  LET sorted == SortByNameLength(getClasses)
  IN  CHOOSE k \in DOMAIN sorted : sorted[k] = c

\* the iteration for class c alone ends the loop with a student of the directory
ResolvesUnder(c, id) == ClassStep(c, id, normalizeId(id), NullStudent).break

IsStrictPrefix(p, q) == Len(p) < Len(q) /\ StartsWith(q, p)

\* no two rows of a class hold the same number
NumbersDistinct(rows) ==
  \A r1 \in rows : \A r2 \in rows :
    (r1 # r2 /\ r1.classId = r2.classId /\ r1.uniqueId # 0) => r1.uniqueId # r2.uniqueId

\* the classes have pairwise different, non-empty clean names
CleanNamesDistinct ==
  \A i \in DOMAIN classesTbl : \A j \in DOMAIN classesTbl :
    /\ cleanName(classesTbl[i].name) # <<>>
    /\ i # j => cleanName(classesTbl[i].name) # cleanName(classesTbl[j].name)

\* C1 -- round trip: once the identifier getFullDisplayId builds for a stored
\* student s and its class c has been resolved, the page shows s and c. The
\* directories considered are those where the numbers of a class are distinct
\* and the classes have distinct, non-empty clean names, so that a failure is
\* the resolver's own.
C1_RoundTrip ==
  \A s \in studentsTbl : \A c \in ClassRowsSet :
    ( /\ Done
      /\ NumbersDistinct(studentsTbl)
      /\ CleanNamesDistinct
      /\ s.classId = c.id
      /\ fib[1].id = getFullDisplayId(s, c) )
      => (student = s /\ classGroup = c)

\* C2 -- longest prefix wins: when the clean name of c1 is a strict prefix of
\* the clean name of c2 and the token starts with the clean name of c2, c2 is
\* tried before c1, and a token both classes resolve ends with class c2.
C2_LongestPrefixWins ==
  \A c1 \in ClassRowsSet : \A c2 \in ClassRowsSet :
    ( /\ fib[1].pc \in {"loop", "fallback", "getClass", "done"}
      /\ IsStrictPrefix(cleanName(c1.name), cleanName(c2.name))
      /\ StartsWith(fib[1].normalizedId, cleanName(c2.name)) )
      => /\ TryPosition(c2) < TryPosition(c1)
         /\ (Done /\ ResolvesUnder(c1, fib[1].id) /\ ResolvesUnder(c2, fib[1].id))
              => classGroup = c2

\* C3 (as stated) -- a token that is, up to letter case, the clean name of a
\* class c followed by the decimal digits of a number n some student of c
\* holds resolves to class c and to a student of c holding n.
C3_SequenceLink_Original ==
  \A s \in studentsTbl : \A c \in ClassRowsSet :
    ( /\ Done
      /\ s.classId = c.id
      /\ s.uniqueId # 0
      /\ fib[1].normalizedId = cleanName(c.name) \o DecString(s.uniqueId) )
      => (classGroup = c /\ student.classId = c.id /\ student.uniqueId = s.uniqueId)

\* C3 (amended) -- such a token, for a number n of at most 9 digits, resolves
\* to class c and to the student of c holding n (the first one in getStudents
\* order, should several hold n), provided no other class of the directory
\* resolves the token as well.
C3_SequenceLink ==
  \A s \in studentsTbl : \A c \in ClassRowsSet :
    ( /\ Done
      /\ s.classId = c.id
      /\ s.uniqueId # 0
      /\ Len(DecString(s.uniqueId)) < 10
      /\ fib[1].normalizedId = cleanName(c.name) \o DecString(s.uniqueId)
      /\ \A d \in ClassRowsSet : d # c => ~ResolvesUnder(d, fib[1].id) )
      => /\ classGroup = c
         /\ student.classId = c.id
         /\ student.uniqueId = s.uniqueId
         /\ student = FindByUniqueId(getStudents(c.id), {s.uniqueId})

\* the case of C3: the documented token 5thGrade12 resolved to student 12 of "5th Grade"
C3_Witness ==
  /\ Done
  /\ fib[1].id = Clean5thGrade \o <<"1","2">>
  /\ classGroup.name = Name5thGrade
  /\ student.uniqueId = 12
  /\ student.classId = classGroup.id
  /\ \A d \in ClassRowsSet : d # classGroup => ~ResolvesUnder(d, fib[1].id)
  /\ fib[1].via = "number"

\* the digit strings n for which id is p, an underscore, and n
DigitTails(id, p) ==
  LET n == Slice(id, Len(p) + 1)
  IN  IF StartsWith(id, p \o <<"_">>) /\ n # <<>> /\ AllDigits(n) THEN {n} ELSE {}

CleanNames == { cleanName(c.name) : c \in ClassRowsSet }

\* C4 (as stated) -- for a class clean name p and a digit string n, the token
\* p_n resolves to the same outcome as the token pn.
C4_Underscore_Original ==
  Done => \A p \in CleanNames : \A n \in DigitTails(fib[1].id, p) :
            <<student, classGroup>> = Outcome(p \o n)

\* C4 (amended) -- the same, provided p is the only clean name of a class of
\* the directory that is a prefix of pn.
C4_Underscore ==
  Done => \A p \in CleanNames : \A n \in DigitTails(fib[1].id, p) :
            (\A q \in CleanNames : StartsWith(p \o n, q) => q = p)
              => <<student, classGroup>> = Outcome(p \o n)

\* the case of C4: 5thgrade_12 resolved, through the underscore, to a student
\* of a class whose clean name is 5thgrade, with no other clean name in the way
C4_Witness ==
  /\ Done
  /\ fib[1].id = ToLowerCase(Clean5thGrade) \o <<"_","1","2">>
  /\ \A q \in CleanNames : StartsWith(ToLowerCase(Clean5thGrade) \o <<"1","2">>, q)
                             => q = ToLowerCase(Clean5thGrade)
  /\ Len(classesTbl) = 2
  /\ student.uniqueId = 12
  /\ fib[1].via = "number"

\* tokens that differ from id in letter case only
CaseVariants(id) ==
  { ToLowerCase(id), ToUpperCase(id),
    [i \in 1..Len(id) |-> IF i % 2 = 0 THEN ToUpperChar(id[i]) ELSE ToLowerChar(id[i])] }

\* C5 -- case insensitivity: every token differing from the resolved one in
\* letter case only resolves to the same student and class, or to not found
\* when the resolved one was not found.
C5_CaseInsensitive ==
  Done => \A t \in CaseVariants(fib[1].id) : Outcome(t) = <<student, classGroup>>

\* the cases of C5: a mixed-case token resolved on the numeric path ...
C5_WitnessNumber ==
  /\ Done /\ fib[1].via = "number" /\ fib[1].id # fib[1].normalizedId

\* ... an upper-case UUID behind a class prefix resolved on the UUID path ...
C5_WitnessUuid ==
  /\ Done /\ fib[1].via = "uuid" /\ cleanName(classGroup.name) # <<>>
  /\ Slice(fib[1].id, Len(cleanName(classGroup.name))) = ToUpperCase(student.id)

\* ... and a bare upper-case UUID resolved by the fallback
C5_Witness ==
  /\ Done /\ fib[1].via = "fallback" /\ fib[1].id = ToUpperCase(student.id)
  /\ fib[1].id # student.id

\* C6 -- bare UUID: a token that is exactly the id of a stored student
\* resolves to that student and to the class its classId refers to (the
\* outcome the full-token fallback gives, whichever lookup produced it).
C6_BareUuid ==
  \A s \in studentsTbl :
    (Done /\ fib[1].id = s.id)
      => /\ student = s
         /\ classGroup = (IF s.classId = NoClassId THEN NullClass ELSE getClass(s.classId))

\* C7 -- no short circuit: the loop ends early only on a class that yields a
\* student; otherwise every class of the sorted list has been tried and the
\* full token has been looked up by id, and the outcome is not found exactly
\* when no class and no full-token lookup yields a student.
C7_NoShortCircuit ==
  LET me     == fib[1]
      tried  == IF me.pc = "loop" THEN 1..(me.idx - 1)
                ELSE IF me.pc = "done" /\ me.via \in {"number", "uuid"} THEN 1..(me.idx - 1)
                ELSE DOMAIN me.sortedClasses
      fullLookup == <<1, "getStudent", me.id>>
  IN  /\ me.pc \in {"loop", "fallback", "getClass", "done"}
           => \A k \in tried : ~ResolvesUnder(me.sortedClasses[k], me.id)
      /\ (me.pc \in {"fallback", "getClass"} \/ (Done /\ me.via \in {"fallback", "none"}))
           => /\ me.idx = Len(me.sortedClasses) + 1
              /\ calls # <<>> /\ fullLookup \in Range(calls)
      /\ Done =>
           ( student = NullStudent
               <=> /\ \A c \in ClassRowsSet : ~ResolvesUnder(c, me.id)
                   /\ getStudent(me.id) = NullStudent )

\* the case of C7: two classes whose clean names prefix the token, the first
\* with a remainder that is no number and no UUID, the second with a numeric
\* remainder naming no student; the full token was then looked up; not found
C7_Witness ==
  /\ Done
  /\ student = NullStudent
  /\ Len(fib[1].sortedClasses) = 2
  /\ \A k \in {1, 2} :
       ClassStep(fib[1].sortedClasses[k], fib[1].id, fib[1].normalizedId, NullStudent).prefix
  /\ ~ClassStep(fib[1].sortedClasses[1], fib[1].id, fib[1].normalizedId, NullStudent).numeric
  /\ ClassStep(fib[1].sortedClasses[2], fib[1].id, fib[1].normalizedId, NullStudent).numeric
  /\ <<1, "getStudent", fib[1].id>> \in Range(calls)

\* the read functions of the directory services
ReadFunctions == {"getClasses", "getStudents", "getStudent", "getClass"}

\* C10 -- the resolver only reads: no step of a resolution changes the stored
\* classes or students, and the store functions it calls are read functions.
C10_OnlyReads ==
  [][ /\ classesTbl' = classesTbl
      /\ studentsTbl' = studentsTbl
      /\ \A i \in DOMAIN calls' : calls'[i][2] \in ReadFunctions ]_vars

\* the case of C10: a completed resolution that fetched the class list, the
\* students of a class, a student by id and the class of the student found
C10_Witness ==
  /\ Done
  /\ student # NullStudent
  /\ {"getClasses", "getStudent", "getClass"} \subseteq { calls[i][2] : i \in DOMAIN calls }
  /\ Len(calls) >= 3

\* C11 -- output shape: a completed resolution leaves either a student and a
\* class, or neither; never a student without a class.
C11_OutputShape ==
  Done => \/ student # NullStudent /\ classGroup # NullClass
          \/ student = NullStudent /\ classGroup = NullClass

\* a canonical UUID: five groups of 8, 4, 4, 4 and 12 hexadecimal digits
\* joined by dashes
IsCanonicalUuid(s) ==
  /\ Len(s) = 36
  /\ AllHex(SubSeq(s, 1, 8)) /\ s[9] = "-"
  /\ AllHex(SubSeq(s, 10, 13)) /\ s[14] = "-"
  /\ AllHex(SubSeq(s, 15, 18)) /\ s[19] = "-"
  /\ AllHex(SubSeq(s, 20, 23)) /\ s[24] = "-"
  /\ AllHex(SubSeq(s, 25, 36))

\* the arguments getStudent has been called with
GetStudentArgs == { calls[i][3] : i \in { j \in DOMAIN calls : calls[j][2] = "getStudent" } }

\* C12 -- getStudent tolerates malformed identifiers: called with a string
\* that is no canonical UUID it returns not found and asks the store for
\* nothing; the store is asked only for canonical UUIDs.
C12_MalformedIds ==
  \A arg \in GetStudentArgs :
    /\ ~IsCanonicalUuid(arg) => (getStudent(arg) = NullStudent /\ getStudentQueries(arg) = {})
    /\ \A q \in getStudentQueries(arg) : IsCanonicalUuid(q)

\* the case of C12: getStudent was called with 36 characters that are no
\* UUID, and with a token that is no UUID by its length, and found nothing
C12_Witness ==
  /\ Done
  /\ UUID_Malformed \in GetStudentArgs
  /\ student = NullStudent

\* the trimmed remainder of the token after the clean name of class c
CleanRemainderOf(c, id) == ClassStep(c, id, normalizeId(id), NullStudent).cleanRemainder

\* C13 -- numeric branch guard: a student found through the numeric branch
\* behind a non-empty class-name prefix was found for a remainder that, after
\* the underscore is dropped and the blanks are trimmed, is non-empty,
\* shorter than 10 characters and made of decimal digits only.
C13_NumericGuard ==
  (Done /\ fib[1].via = "number" /\ cleanName(classGroup.name) # <<>>)
    => LET r == CleanRemainderOf(classGroup, fib[1].id)
       IN  r # <<>> /\ Len(r) < 10 /\ AllDigits(r)

\* positions in calls of the getStudents calls
GetStudentsCalls == { i \in DOMAIN calls : calls[i][2] = "getStudents" }

\* C14 -- student-directory fetches are minimized: getStudents is called for
\* a class only if the lower-cased token starts with the clean name of the
\* class and the trimmed remainder passes the numeric test, at most once per
\* class, and for no class that comes after the class a student was found on.
C14_FetchesMinimized ==
  LET me == fib[1]
  IN  /\ \A i \in GetStudentsCalls :
          LET c == getClass(calls[i][3])
              r == CleanRemainderOf(c, me.id)
          IN  /\ c # NullClass
              /\ StartsWith(ToLowerCase(me.id), cleanName(c.name))
              /\ ~NumberIsNaN(r) /\ Len(r) > 0 /\ Len(r) < 10
              /\ \E k \in 1..me.idx : k <= Len(me.sortedClasses) /\ me.sortedClasses[k] = c
      /\ \A i \in GetStudentsCalls : \A j \in GetStudentsCalls :
          (calls[i][3] = calls[j][3]) => (i = j)
      /\ (Done /\ me.via \in {"number", "uuid"})
           => \A i \in GetStudentsCalls :
                TryPosition(getClass(calls[i][3])) <= TryPosition(classGroup)

\* the case of C14: a student was found by number on the first of two
\* classes, the second one would pass the prefix and numeric tests as well,
\* and only the students of the first were fetched
C14_Witness ==
  /\ Done
  /\ fib[1].via = "number"
  /\ Len(fib[1].sortedClasses) = 2
  /\ fib[1].idx = 1
  /\ ClassStep(fib[1].sortedClasses[2], fib[1].id, fib[1].normalizedId, NullStudent).numeric
  /\ Cardinality(GetStudentsCalls) = 1

\* C15 -- termination: a started resolution eventually completes, with the
\* loading flag cleared and the student it found, or none, on display.
C15_Terminates ==
  (fib[1].pc # "idle") ~> (Done /\ isLoading = FALSE /\ student = fib[1].fetchedStudent)

\* the case of C15: the resolution completed as not found after getStudents
\* returned no student of the number and getStudent returned null
C15_Witness ==
  /\ Done
  /\ isLoading = FALSE
  /\ student = NullStudent
  /\ GetStudentsCalls # {}
  /\ fib[1].id \in GetStudentArgs

\* the largest number held in class classId by the rows of tbl, 0 if none holds one
LargestHeld(tbl, classId) ==
  LET nums == { r.uniqueId : r \in { x \in tbl : x.classId = classId } } \cup {0}
  IN  CHOOSE m \in nums : \A n \in nums : n <= m

\* C16 -- lazy assignment: a saveStudent call made for a student without a
\* uniqueId computes, when it reads the class, the largest uniqueId of the
\* students then stored in the class (0 if none has one) plus one, and its
\* upsert stores the student with that number; the upsert of a call made for
\* a student with a uniqueId stores that uniqueId.  "Currently stored" is
\* read as: stored when saveStudent reads the class.
C16_LazyAssignment ==
  [][ \A c \in Clients :
        /\ (ops[c].pc = "saveRead" /\ ops'[c].pc # "saveRead")
              => /\ ops'[c].pc = "saveUpsert"
                 /\ ops'[c].auto
                 /\ ops'[c].payload.uniqueId
                      = LargestHeld(studentsTbl, ops[c].payload.classId) + 1
        /\ (ops[c].pc = "idle" /\ ops'[c].pc = "saveUpsert")
              => (~ops'[c].auto /\ ops'[c].payload.uniqueId # 0)
        /\ (ops[c].pc = "saveUpsert" /\ ops'[c].pc # "saveUpsert")
              => LET p      == ops[c].payload
                     stored == { r \in studentsTbl' :
                                  IF p.id = NoId THEN r.id \notin usedIds ELSE r.id = p.id }
                 IN  /\ Cardinality(stored) = 1
                     /\ \A r \in stored : r.uniqueId = p.uniqueId /\ r.classId = p.classId
    ]_vars

\* the case of C16: a new student was saved without a number into a class
\* whose students held 1 and 2, and is stored with 3
C16_Witness ==
  /\ ops[1].pc = "idle"
  /\ \E r \in studentsTbl : \E a \in studentsTbl : \E b \in studentsTbl :
       /\ r.id = StorePool[1] /\ r.uniqueId = 3
       /\ a.classId = r.classId /\ a.uniqueId = 1
       /\ b.classId = r.classId /\ b.uniqueId = 2
       /\ autoSeq[r.classId] = <<1, 2, 3>>

\* C17 -- the resolved class owns the resolved student: a completed
\* resolution that shows a student assigned to a class and a class (of a
\* non-empty clean name) shows the class the student's classId refers to.
C17_ClassOwnsStudent ==
  ( /\ Done
    /\ student # NullStudent /\ student.classId # NoClassId
    /\ classGroup # NullClass /\ cleanName(classGroup.name) # <<>> )
    => student.classId = classGroup.id

\* C18 -- latest token wins: once the resolution started for the first token
\* and the one started for the token that replaced it have both completed,
\* the page shows what the latest token resolves to.
C18_LatestTokenWins ==
  (fib[1].pc = "done" /\ fib[2].pc = "done")
    => <<student, classGroup>> = Outcome(fib[2].id)

\* C19 -- session video list round trip, its last clause: after successful
\* saves of one session, the last of them with at least one video, no list
\* getSessions reports for it holds a URL that is not in the list passed to
\* the last save.
C19_VideoRoundTrip ==
  lastVideoUrls # <<>> =>
    \A reported \in getSessionsVideoUrls : Range(reported) \subseteq Range(lastVideoUrls)

\* the rows of class classId
StudentsOf(classId) == { r \in studentsTbl : r.classId = classId }

\* C20 -- ensureClassStudentNumbers backfill, step by step for a call that
\* runs alone on a class.  When its select answers: if no student of the
\* class lacks a number it returns without an update; otherwise the numbers
\* it will write go to exactly the students lacking one, are consecutive from
\* the previous maximum + 1, and follow ascending name order.  Each update
\* writes that number to that student and changes nothing else, so students
\* that had a number keep it.  When it returns, every student of the class
\* has a uniqueId and all uniqueIds of the class are distinct.
C20_Backfill ==
  [][ \A c \in Clients :
        LET classId  == ops[c].classId
            lacking  == { r \in StudentsOf(classId) : r.uniqueId = 0 }
            returned == ops[c].pc \in {"ensureRead", "ensureUpdate"} /\ ops'[c].pc = "idle"
        IN  /\ (ops[c].pc = "ensureRead" /\ ops'[c].pc # "ensureRead" /\ lacking = {})
                  => (ops'[c].pc = "idle" /\ studentsTbl' = studentsTbl)
            /\ (ops[c].pc = "ensureRead" /\ ops'[c].pc # "ensureRead" /\ lacking # {})
                  => LET updates == ops'[c].updates
                     IN  /\ ops'[c].pc = "ensureUpdate"
                         /\ studentsTbl' = studentsTbl
                         /\ Len(updates) = Cardinality(lacking)
                         /\ { updates[i].id : i \in DOMAIN updates } = { r.id : r \in lacking }
                         /\ \A i \in DOMAIN updates :
                              updates[i].uniqueId = LargestHeld(studentsTbl, classId) + i
                         /\ \A i \in DOMAIN updates : \A j \in DOMAIN updates :
                              \A ri \in lacking : \A rj \in lacking :
                                (i < j /\ ri.id = updates[i].id /\ rj.id = updates[j].id)
                                  => ri.name <= rj.name
            /\ (ops[c].pc = "ensureUpdate" /\ ops'[c] # ops[c])
                  => LET u == Head(ops[c].updates)
                     IN  /\ \A r \in studentsTbl : r.id # u.id => r \in studentsTbl'
                         /\ \A r \in studentsTbl : r.id = u.id =>
                              /\ r.uniqueId = 0
                              /\ [r EXCEPT !.uniqueId = u.uniqueId] \in studentsTbl'
                         /\ Cardinality(studentsTbl') = Cardinality(studentsTbl)
            /\ returned
                  => LET after == { r \in studentsTbl' : r.classId = classId }
                     IN  /\ \A r \in after : r.uniqueId # 0
                         /\ \A r1 \in after : \A r2 \in after :
                              r1.id # r2.id => r1.uniqueId # r2.uniqueId
    ]_vars

====
